---- MODULE Spec2Model ----
(***************************************************************************)
(* Model of the UDP tracker health checker: the gate of main               *)
(* (src/src/main.rs), the per-candidate check check_udp_candidate          *)
(* (src/src/tracker_check.rs) and the protocol session UdpTrackerClient    *)
(* (src/src/tracker_client.rs).                                            *)
(*                                                                         *)
(* The program runs on tokio's single-threaded scheduler: a future runs    *)
(* without interruption from the completion of one .await to the next      *)
(* .await.  Each action below is one such stretch of code, with the        *)
(* outcome of the awaited operation (DNS answer, bind result, send result, *)
(* received datagram, timeout) drawn from the set the environment can      *)
(* produce.                                                                *)
(*                                                                         *)
(* Spec is the run of one candidate, SpecGate the run of more candidates   *)
(* than permits.  SpecRtt, SpecRecv and SpecCandidate apply one piece of   *)
(* code on its own (the verdict's rtt_ms, the receive half of connect()    *)
(* and announce(), the canonical string of src/src/candidates.rs) to       *)
(* arguments drawn from bounded sets.                                      *)
(***************************************************************************)
EXTENDS Integers, Sequences, FiniteSets, TLC

(***************************************************************************)
(* Bounds of the model and constants of the program.                       *)
(***************************************************************************)
\* candidates of the run of specification SpecGate: more than Permits
NumGateCandidates == 11
\* most addresses one host resolves to
MaxAddrs == 2
\* the longest host, and the longest suffix, of a candidate built by hand
MaxHostLen == 2
MaxSuffixLen == 2
\* Semaphore::new(10)
Permits == 10
\* let mut buffer = [0u8; 1024]
BufferLen == 1024
\* the receive timeout of a session, in ms
TimeoutMs == 5000

VARIABLES
    candidates,   \* main: the UDP candidates of the run, 1..n in list order
    zone,         \* environment: the addresses each candidate's host has in DNS
    semaphore,    \* main: permits available in the Semaphore
    permit,       \* main: whether the candidate's future holds a SemaphorePermit
    task,         \* main: where each candidate's future stands
    addrs,        \* check_udp_candidate: the resolved addresses
    client,       \* check_udp_candidate: one attempt (socket + session) per address
    result,       \* main: what each candidate's future returned
    main_pc,      \* main: "joining" at join_all(profiles).await, then "joined"
    panicked,     \* the process was aborted by a panic
    call          \* one call of a function on its own: its arguments and result

vars == <<candidates, zone, semaphore, permit, task, addrs, client, result,
          main_pc, panicked, call>>

\* the variables of a run of main
run_vars == <<candidates, zone, semaphore, permit, task, addrs, client, result,
              main_pc, panicked>>

\* the i-th address a host resolves to: IPv4 and IPv6 addresses alternate
Address(i) == [ip |-> i, family |-> IF i % 2 = 1 THEN "V4" ELSE "V6"]

\* the DNS answers with 0..n addresses
Answers(n) == {[i \in 1..k |-> Address(i)] : k \in 0..n}
\* ports the operating system binds a socket to
LocalPorts == {1, 2}
\* ports of the peers a tracker returns: a peer list can hold the probe's own
\* port, another port, both or none
PeerPorts == {1, 2}
\* connection ids a tracker issues: 0, which the session also uses for "not
\* connected", and an id that is not 0
ConnIds == {0, 1}

(***************************************************************************)
(* Values of the environment.                                              *)
(***************************************************************************)
\* socket I/O errors the operating system reports on a UDP socket
SocketErrorKinds == {"ConnectionRefused"}

\* tokio::net::UdpSocket::bind(..).await
BindResults ==
    {[ok |-> TRUE, port |-> p] : p \in LocalPorts} \cup {[ok |-> FALSE, port |-> 0]}

\* self.socket.send_to(&buffer, self.tracker_addr).await
SendResults ==
    {[ok |-> TRUE, n |-> BufferLen, kind |-> "none"],
     [ok |-> TRUE, n |-> BufferLen - 1, kind |-> "none"]}
    \cup {[ok |-> FALSE, n |-> 0, kind |-> k] : k \in SocketErrorKinds}

\* lengths of a datagram: below, at and above the length of the receive buffer
DatagramLens == {BufferLen - 1, BufferLen, BufferLen + 1}

\* values of create_random_transaction_id(), and of the transaction id of a
\* response
TxIds == {1, 2}

\* a datagram a tracker sends: its length, and what
\* response::TrackerResponse::from_bytes makes of the bytes received; txids are
\* the transaction ids it may carry
DatagramsWith(txids) ==
    {[type |-> "Connect", txid |-> x, conn_id |-> i, peers |-> {}, len |-> n] :
        x \in txids, i \in ConnIds, n \in DatagramLens}
    \cup {[type |-> "Announce", txid |-> x, conn_id |-> 0, peers |-> ps, len |-> n] :
             x \in txids, ps \in SUBSET PeerPorts, n \in DatagramLens}
    \cup {[type |-> t, txid |-> x, conn_id |-> 0, peers |-> {}, len |-> n] :
             t \in {"Scrape", "Error", "Incomplete", "Unparsable"},
             x \in txids, n \in DatagramLens}

\* the datagrams of a run: one transaction id stands for all
Datagrams == DatagramsWith({1})

NoDatagram == [type |-> "none", txid |-> 0, conn_id |-> 0, peers |-> {}, len |-> 0]

\* what recv returns for a datagram: the bytes that fit the buffer
Read(d) == IF d.len > BufferLen THEN BufferLen ELSE d.len

\* time::timeout(self.timeout, self.socket.recv(&mut buffer)).await
RecvResultsOf(datagrams) ==
    {[res |-> "Elapsed", kind |-> "none", dgram |-> NoDatagram]}
    \cup {[res |-> "IoError", kind |-> k, dgram |-> NoDatagram] : k \in SocketErrorKinds}
    \cup {[res |-> "Datagram", kind |-> "none", dgram |-> d] : d \in datagrams}

RecvResults == RecvResultsOf(Datagrams)

(***************************************************************************)
(* UdpTrackerClientError and CheckError.                                   *)
(***************************************************************************)
NoError == [variant |-> "none", detail |-> "none"]
GeneralError(msg) == [variant |-> "GeneralError", detail |-> msg]
ApplicationError(msg) == [variant |-> "ApplicationError", detail |-> msg]
IoError(kind) == [variant |-> "IoError", detail |-> kind]

\* impl From<Elapsed> for UdpTrackerClientError
FromElapsed == IoError("TimedOut")

\* a conversion that knows no timeout
CheckErrorFromIo_operational(kind) == "OperationalError"

\* impl From<io::Error> for CheckError
CheckErrorFromIo(kind) ==
    IF kind = "TimedOut" THEN "Timeout" ELSE "OperationalError"

\* impl From<UdpTrackerClientError> for CheckError
CheckErrorFromClient(err) ==
    CASE err.variant = "IoError" -> CheckErrorFromIo(err.detail)
      [] err.variant = "ApplicationError" -> "OperationalError"
      [] err.variant = "GeneralError" -> "OperationalError"

CheckErrors == {"DnsResolutionFailed", "OperationalError", "PartialTimeout", "Timeout"}

(***************************************************************************)
(* UdpTrackerClient: one session on one socket.  The attempt record holds  *)
(* the session's fields (conn_id), the socket's (family, bind_addr,        *)
(* local_port), the datagrams it sent and the receives it performed, and   *)
(* the position and outcome of the per-address future that owns them.      *)
(***************************************************************************)
\* UdpTrackerClient::new, on a socket not yet bound
NewAttempt(address) ==
    [pc |-> "bind", family |-> address.family, bind_addr |-> "none", local_port |-> 0,
     conn_id |-> 0, sent |-> <<>>, recvs |-> 0, connect_res |-> "none",
     err |-> NoError, announce_resp |-> [some |-> FALSE, peers |-> {}],
     accepted |-> FALSE, cleanup |-> "none", outcome |-> "none",
     clock |-> 0, rtt |-> 0, cause |-> "none"]

\* an awaited operation of the attempt completed: the time since `timestamp`
\* moves on, counted in completed operations
Tick(s) == [s EXCEPT !.clock = @ + 1]

Returned(ret, err, s, peers) == [ret |-> ret, err |-> err, s |-> s, peers |-> peers]

\* connect(): from its start to the completion of send_to
connect_send(s, sr) ==
    IF ~sr.ok
    THEN Returned("Err", IoError(sr.kind), s, {})
    ELSE LET s1 == [s EXCEPT !.sent = Append(@, "CONNECT")]
         IN  IF BufferLen # sr.n
             THEN Returned("Err", GeneralError("Failed to send the entire CONNECT request"), s1, {})
             ELSE Returned("Pending", NoError, s1, {})

\* connect() writing conn_id before it knows what the response is
connect_recv_eager(s, rr) ==
    LET s1 == [s EXCEPT !.recvs = @ + 1, !.conn_id = 1]
    IN  IF rr.res = "Datagram" /\ rr.dgram.type = "Connect"
        THEN Returned("Ok", NoError, s1, {})
        ELSE Returned("Err", ApplicationError("Unknown CONNECT response error"), s1, {})

\* connect(): from the completion of the timed recv to its return
connect_recv(s, rr) ==
    LET s1 == [s EXCEPT !.recvs = @ + 1]
        d  == rr.dgram
    IN  IF rr.res = "Elapsed" THEN Returned("Err", FromElapsed, s1, {})
        ELSE IF rr.res = "IoError" THEN Returned("Err", IoError(rr.kind), s1, {})
        ELSE IF Read(d) > BufferLen
        THEN Returned("Err", GeneralError("Failed to read the entire CONNECT response. Buffer too small?"), s1, {})
        ELSE CASE d.type = "Incomplete" ->
                    Returned("Err", ApplicationError("Incomplete CONNECT response"), s1, {})
               [] d.type = "Unparsable" ->
                    Returned("Err", ApplicationError("Unknown CONNECT response error"), s1, {})
               [] d.type = "Connect" ->
                    Returned("Ok", NoError, [s1 EXCEPT !.conn_id = d.conn_id], {})
               [] d.type = "Announce" ->
                    Returned("Err", ApplicationError("Expected CONNECT response, got ANNOUNCE response"), s1, {})
               [] d.type = "Scrape" ->
                    Returned("Err", ApplicationError("Expected CONNECT response, got SCRAPE response"), s1, {})
               [] d.type = "Error" ->
                    Returned("Err", ApplicationError("Expected CONNECT response, got ERROR response"), s1, {})

\* announce() without its test of conn_id
announce_call_unguarded(s) == Returned("Pending", NoError, s, {})

\* announce(): from its call to its first await
announce_call(s) ==
    IF s.conn_id = 0
    THEN Returned("Err", ApplicationError("You have to run connect first!"), s, {})
    ELSE Returned("Pending", NoError, s, {})

\* announce(): the completion of send_to
announce_send(s, event, sr) ==
    IF ~sr.ok
    THEN Returned("Err", IoError(sr.kind), s, {})
    ELSE LET s1 == [s EXCEPT !.sent = Append(@, event)]
         IN  IF BufferLen # sr.n
             THEN Returned("Err", GeneralError("Failed to send the entire ANNOUNCE request"), s1, {})
             ELSE Returned("Pending", NoError, s1, {})

\* an announce() that takes any response it can parse for its own
announce_recv_any(s, rr) ==
    LET s1 == [s EXCEPT !.recvs = @ + 1]
    IN  IF rr.res = "Datagram" /\ rr.dgram.type \notin {"Incomplete", "Unparsable"}
        THEN Returned("Ok", NoError, s1, rr.dgram.peers)
        ELSE Returned("Err", ApplicationError("Unknown ANNOUNCE response error"), s1, {})

\* announce(): from the completion of the timed recv to its return
announce_recv(s, rr) ==
    LET s1 == [s EXCEPT !.recvs = @ + 1]
        d  == rr.dgram
    IN  IF rr.res = "Elapsed" THEN Returned("Err", FromElapsed, s1, {})
        ELSE IF rr.res = "IoError" THEN Returned("Err", IoError(rr.kind), s1, {})
        ELSE IF Read(d) >= BufferLen
        THEN Returned("Err", GeneralError("Failed to read the entire ANNOUNCE response. Buffer too small?"), s1, {})
        ELSE CASE d.type = "Incomplete" ->
                    Returned("Err", ApplicationError("Incomplete ANNOUNCE response"), s1, {})
               [] d.type = "Unparsable" ->
                    Returned("Err", ApplicationError("Unknown ANNOUNCE response error"), s1, {})
               [] d.type = "Announce" ->
                    Returned("Ok", NoError, s1, d.peers)
               [] d.type = "Connect" ->
                    Returned("Err", ApplicationError("Expected ANNOUNCE response, got CONNECT response"), s1, {})
               [] d.type = "Scrape" ->
                    Returned("Err", ApplicationError("Expected ANNOUNCE response, got SCRAPE response"), s1, {})
               [] d.type = "Error" ->
                    Returned("Err", ApplicationError("Expected ANNOUNCE response, got ERROR response"), s1, {})

(***************************************************************************)
(* check_udp_candidate: the per-address future (the async move block).     *)
(***************************************************************************)
\* what the socket did in the step that failed
SendCause(sr) == IF sr.ok THEN "ShortSend" ELSE "SendError"
RecvCause(rr) == rr.res
Because(s, cause) == [s EXCEPT !.cause = cause]

\* the ? operator: the future ends with Err(CheckError::from(err))
Propagate(s, err) ==
    [s EXCEPT !.pc = "done", !.err = err, !.outcome = CheckErrorFromClient(err)]

\* an end that looks at the cleanup announce: its error becomes the outcome,
\* and the latency is taken once it is over
EndAccepted_observing(s, r) ==
    [s EXCEPT !.pc = "done", !.cleanup = r.ret, !.rtt = s.clock,
              !.outcome = IF r.ret = "Err" THEN CheckErrorFromClient(r.err) ELSE "Ok"]

\* Ok((address, rtt)) after the cleanup announce, whose result is dropped
EndAccepted(s, r) ==
    [s EXCEPT !.pc = "done", !.cleanup = r.ret, !.outcome = "Ok"]

\* the socket is bound; UdpTrackerClient::new; connect() runs to its send_to
attempt_bound(s, br) ==
    [s EXCEPT !.pc = "connect_send",
              !.bind_addr = IF s.family = "V4" THEN "0.0.0.0:0" ELSE "[::]:0",
              !.local_port = br.port]

\* client.announce(Started) is called
attempt_announce(s) ==
    LET r == announce_call(s)
    IN  IF r.ret = "Err" THEN Propagate(Because(r.s, "NotConnected"), r.err)
        ELSE [r.s EXCEPT !.pc = "announce_send"]

\* a connect() that is called a second time when its send failed
attempt_connect_send_retry(s, sr) ==
    LET r == connect_send(Tick(s), sr)
    IN  IF r.ret = "Err"
        THEN IF r.s.clock < 2 THEN [r.s EXCEPT !.pc = "connect_send"]
             ELSE Propagate(Because([r.s EXCEPT !.connect_res = "Err"], SendCause(sr)), r.err)
        ELSE [r.s EXCEPT !.pc = "connect_recv"]

\* client.connect().await? once send_to completed
attempt_connect_send(s, sr) ==
    LET r == connect_send(Tick(s), sr)
    IN  IF r.ret = "Err"
        THEN Propagate(Because([r.s EXCEPT !.connect_res = "Err"], SendCause(sr)), r.err)
        ELSE [r.s EXCEPT !.pc = "connect_recv"]

\* client.connect().await? once recv completed, then the code up to announce's send_to
attempt_connect_recv(s, rr) ==
    LET r == connect_recv(Tick(s), rr)
    IN  IF r.ret = "Err"
        THEN Propagate(Because([r.s EXCEPT !.connect_res = "Err"], RecvCause(rr)), r.err)
        ELSE attempt_announce([r.s EXCEPT !.connect_res = "Ok"])

\* client.announce(announce_request).await? once send_to completed
attempt_announce_send(s, sr) ==
    LET r == announce_send(Tick(s), "ANNOUNCE_STARTED", sr)
    IN  IF r.ret = "Err" THEN Propagate(Because(r.s, SendCause(sr)), r.err)
        ELSE [r.s EXCEPT !.pc = "announce_recv"]

\* the peer test taking any returned peer for the probe
any_peer_returned(s, peers) == peers # {}

\* whether the tracker returned the probe's own port among the peers
is_local_peer_returned(s, peers) == \E peer \in peers : s.local_port = peer

\* the cleanup client.announce(Stopped) is called
attempt_cleanup(s) ==
    LET r == announce_call(s)
    IN  IF r.ret = "Err" THEN EndAccepted(r.s, r)
        ELSE [r.s EXCEPT !.pc = "stop_send"]

\* client.announce(..).await? once recv completed, then timestamp.elapsed(),
\* the peer test and the cleanup call
attempt_announce_recv(s, rr) ==
    LET r == announce_recv(Tick(s), rr)
    IN  IF r.ret = "Err" THEN Propagate(Because(r.s, RecvCause(rr)), r.err)
        ELSE LET s1 == [r.s EXCEPT !.announce_resp = [some |-> TRUE, peers |-> r.peers],
                                   !.rtt = r.s.clock]
             IN  IF is_local_peer_returned(s1, r.peers)
                 THEN attempt_cleanup([s1 EXCEPT !.accepted = TRUE])
                 ELSE [s1 EXCEPT !.pc = "done", !.outcome = "OperationalError",
                                 !.cause = "PeerMissing"]

\* the cleanup announce once send_to completed
attempt_stop_send(s, sr) ==
    LET r == announce_send(Tick(s), "ANNOUNCE_STOPPED", sr)
    IN  IF r.ret = "Err" THEN EndAccepted(r.s, r)
        ELSE [r.s EXCEPT !.pc = "stop_recv"]

\* the cleanup announce once recv completed
attempt_stop_recv(s, rr) ==
    LET r == announce_recv(Tick(s), rr)
    IN  EndAccepted(r.s, r)

(***************************************************************************)
(* check_udp_candidate: the verdict, from the joined per-address results.  *)
(***************************************************************************)
Pending == [tag |-> "Pending", addrs |-> <<>>, rtt_ms |-> 0, err |-> "none"]
Profile(as, rtt) == [tag |-> "Ok", addrs |-> as, rtt_ms |-> rtt, err |-> "none"]
Failure(e) == [tag |-> "Err", addrs |-> <<>>, rtt_ms |-> 0, err |-> e]

\* u32 arithmetic, on numbers held as two 16-bit halves
Half == 2^16
\* `x as u32`, for x >= 0
AsU32(x) == [hi |-> (x \div Half) % Half, lo |-> x % Half]
\* the wrapping addition of a release build
AddU32(a, b) ==
    LET lo == a.lo + b.lo
        hi == a.hi + b.hi + (lo \div Half)
    IN  [hi |-> hi % Half, lo |-> lo % Half]
\* a / n, for 0 < n < 2^15
DivU32(a, n) ==
    [hi |-> a.hi \div n, lo |-> (((a.hi % n) * Half) + a.lo) \div n]
\* the number a u32 holds
ValueU32(a) == (a.hi * Half) + a.lo

\* durations.map(|duration| duration.as_millis() as u32).sum::<u32>()
RECURSIVE SumU32(_)
SumU32(rtts) ==
    IF rtts = <<>> THEN AsU32(0)
    ELSE AddU32(AsU32(Head(rtts)), SumU32(Tail(rtts)))

\* the mean taken as the sum of the quotients
rtt_ms_of_quotients(rtts) ==
    ValueU32(SumU32([i \in DOMAIN rtts |-> rtts[i] \div Len(rtts)]))

\* rtt_ms: the sum of the per-address latencies divided by their number
rtt_ms(rtts) == ValueU32(DivU32(SumU32(rtts), Len(rtts)))

\* responses.iter().filter(..).count()
CountOf(responses, v) == Cardinality({i \in DOMAIN responses : responses[i] = v})

\* the verdict with a profile as soon as one address succeeded
Classify_any_ok(as, responses, rtts) ==
    LET ok_count  == CountOf(responses, "Ok")
        op_errors == CountOf(responses, "OperationalError")
        timeouts  == CountOf(responses, "Timeout")
    IN  IF ok_count > 0 THEN Profile(as, rtt_ms(rtts))
        ELSE IF op_errors > 0 THEN Failure("OperationalError")
        ELSE IF timeouts < Len(responses) THEN Failure("PartialTimeout")
        ELSE Failure("Timeout")

\* the verdict with the timeouts counted before the operational errors
Classify_timeouts_first(as, responses, rtts) ==
    LET ok_count  == CountOf(responses, "Ok")
        op_errors == CountOf(responses, "OperationalError")
        timeouts  == CountOf(responses, "Timeout")
    IN  IF ok_count = Len(responses) THEN Profile(as, rtt_ms(rtts))
        ELSE IF timeouts = Len(responses) THEN Failure("Timeout")
        ELSE IF timeouts > 0 THEN Failure("PartialTimeout")
        ELSE Failure("OperationalError")

\* the verdict with the last comparison off by one
Classify_timeouts_le(as, responses, rtts) ==
    LET ok_count  == CountOf(responses, "Ok")
        op_errors == CountOf(responses, "OperationalError")
        timeouts  == CountOf(responses, "Timeout")
    IN  IF ok_count = Len(responses) THEN Profile(as, rtt_ms(rtts))
        ELSE IF op_errors > 0 THEN Failure("OperationalError")
        ELSE IF timeouts <= Len(responses) THEN Failure("PartialTimeout")
        ELSE Failure("Timeout")

\* the code after join_all: responses is the list of per-address outcomes
Classify(as, responses, rtts) ==
    LET ok_count  == CountOf(responses, "Ok")
        op_errors == CountOf(responses, "OperationalError")
        timeouts  == CountOf(responses, "Timeout")
    IN  IF ok_count = Len(responses) THEN Profile(as, rtt_ms(rtts))
        ELSE IF op_errors > 0 THEN Failure("OperationalError")
        ELSE IF timeouts < Len(responses) THEN Failure("PartialTimeout")
        ELSE Failure("Timeout")

Outcomes(cl) == [i \in DOMAIN cl |-> cl[i].outcome]

\* the rtt of each per-address result
Latencies(cl) == [i \in DOMAIN cl |-> cl[i].rtt]

AllFinished(cl) == \A i \in DOMAIN cl : cl[i].outcome # "none"

(***************************************************************************)
(* main: the gate and the candidate futures.                               *)
(***************************************************************************)
\* an acquire that does not wait for a permit
Acquire_no_wait(c) ==
    /\ ~panicked
    /\ task[c] = "waiting"
    /\ \A d \in candidates : d < c => task[d] # "waiting"
    /\ semaphore' = semaphore - 1
    /\ permit' = [permit EXCEPT ![c] = TRUE]
    /\ task' = [task EXCEPT ![c] = "resolving"]
    /\ UNCHANGED <<candidates, zone, addrs, client, result, main_pc, panicked, call>>

\* the candidate's future is admitted: semaphore.acquire().await returns, and
\* check_udp_candidate runs to lookup_host(..).await.  The Semaphore is fair:
\* the futures asked for a permit in list order and are served in that order.
Acquire(c) ==
    /\ ~panicked
    /\ task[c] = "waiting"
    /\ \A d \in candidates : d < c => task[d] # "waiting"
    /\ semaphore > 0
    /\ semaphore' = semaphore - 1
    /\ permit' = [permit EXCEPT ![c] = TRUE]
    /\ task' = [task EXCEPT ![c] = "resolving"]
    /\ UNCHANGED <<candidates, zone, addrs, client, result, main_pc, panicked, call>>

\* the future returning res with its permit never dropped
Return_keeping_permit(c, res) ==
    /\ UNCHANGED <<semaphore, permit>>
    /\ task' = [task EXCEPT ![c] = "done"]
    /\ result' = [result EXCEPT ![c] = res]
    /\ main_pc' = IF \A d \in candidates \ {c} : task[d] = "done"
                  THEN "joined" ELSE main_pc

\* check_udp_candidate returned res: drop(permit), and the future returns res;
\* when it was the last future to return, join_all(profiles).await returns
Return(c, res) ==
    /\ semaphore' = semaphore + 1
    /\ permit' = [permit EXCEPT ![c] = FALSE]
    /\ task' = [task EXCEPT ![c] = "done"]
    /\ result' = [result EXCEPT ![c] = res]
    /\ main_pc' = IF \A d \in candidates \ {c} : task[d] = "done"
                  THEN "joined" ELSE main_pc

\* lookup_host completed with an error or with no address
ResolveFailed(c) ==
    /\ ~panicked
    /\ task[c] = "resolving"
    /\ \E answer \in {[ok |-> FALSE, addrs |-> <<>>], [ok |-> TRUE, addrs |-> zone[c]]} :
          /\ ~answer.ok \/ Len(answer.addrs) = 0
          /\ Return(c, Failure("DnsResolutionFailed"))
    /\ UNCHANGED <<candidates, zone, addrs, client, panicked, call>>

\* the same without the test addrs.len() == 0: join_all of no future returns at once
Resolved_unchecked(c) ==
    /\ ~panicked
    /\ task[c] = "resolving"
    /\ IF Len(zone[c]) = 0
       THEN /\ Return(c, Profile(zone[c], 0))
            /\ UNCHANGED <<candidates, zone, addrs, client, panicked, call>>
       ELSE /\ addrs' = [addrs EXCEPT ![c] = zone[c]]
            /\ client' = [client EXCEPT ![c] = [a \in DOMAIN zone[c] |-> NewAttempt(zone[c][a])]]
            /\ task' = [task EXCEPT ![c] = "probing"]
            /\ UNCHANGED <<candidates, zone, semaphore, permit, result, main_pc, panicked, call>>

\* lookup_host completed with addresses: one future per address is created,
\* and join_all polls each up to UdpSocket::bind(..).await
Resolved(c) ==
    /\ ~panicked
    /\ task[c] = "resolving"
    /\ Len(zone[c]) # 0
    /\ addrs' = [addrs EXCEPT ![c] = zone[c]]
    /\ client' = [client EXCEPT ![c] = [a \in DOMAIN zone[c] |-> NewAttempt(zone[c][a])]]
    /\ task' = [task EXCEPT ![c] = "probing"]
    /\ UNCHANGED <<candidates, zone, semaphore, permit, result, main_pc, panicked, call>>

\* the per-address future of address a of candidate c moved to state s; when it
\* was the last one to finish, join_all returns and check_udp_candidate with it
Settle(c, a, s) ==
    LET cl == [client[c] EXCEPT ![a] = s]
    IN  /\ client' = [client EXCEPT ![c] = cl]
        /\ IF AllFinished(cl)
           THEN Return(c, Classify(addrs[c], Outcomes(cl), Latencies(cl)))
           ELSE UNCHANGED <<semaphore, permit, task, result, main_pc>>
        /\ UNCHANGED <<candidates, zone, addrs, panicked, call>>

Probing(c, a, pc) ==
    /\ ~panicked
    /\ task[c] = "probing"
    /\ a \in DOMAIN client[c]
    /\ client[c][a].pc = pc

\* UdpSocket::bind(..).await.unwrap(): an Err panics, and the panic unwinds
\* through join_all and main
Bind(c, a) ==
    /\ Probing(c, a, "bind")
    /\ \E br \in BindResults :
          \/ /\ br.ok
             /\ Settle(c, a, attempt_bound(client[c][a], br))
          \/ /\ ~br.ok
             /\ panicked' = TRUE
             /\ UNCHANGED <<candidates, zone, semaphore, permit, task, addrs,
                            client, result, main_pc, call>>

ConnectSend(c, a) ==
    /\ Probing(c, a, "connect_send")
    /\ \E sr \in SendResults : Settle(c, a, attempt_connect_send(client[c][a], sr))

ConnectRecv(c, a) ==
    /\ Probing(c, a, "connect_recv")
    /\ \E rr \in RecvResults : Settle(c, a, attempt_connect_recv(client[c][a], rr))

AnnounceSend(c, a) ==
    /\ Probing(c, a, "announce_send")
    /\ \E sr \in SendResults : Settle(c, a, attempt_announce_send(client[c][a], sr))

AnnounceRecv(c, a) ==
    /\ Probing(c, a, "announce_recv")
    /\ \E rr \in RecvResults : Settle(c, a, attempt_announce_recv(client[c][a], rr))

StopSend(c, a) ==
    /\ Probing(c, a, "stop_send")
    /\ \E sr \in SendResults : Settle(c, a, attempt_stop_send(client[c][a], sr))

StopRecv(c, a) ==
    /\ Probing(c, a, "stop_recv")
    /\ \E rr \in RecvResults : Settle(c, a, attempt_stop_recv(client[c][a], rr))

(***************************************************************************)
(* Specifications.                                                         *)
(***************************************************************************)
\* no function is called on its own
NoCall == [fn |-> "none"]

\* the state of main at join_all, for n candidates with DNS data z
Start(n, z) ==
    /\ candidates = 1..n
    /\ zone = z
    /\ semaphore = Permits
    /\ permit = [c \in 1..n |-> FALSE]
    /\ task = [c \in 1..n |-> "waiting"]
    /\ addrs = [c \in 1..n |-> <<>>]
    /\ client = [c \in 1..n |-> <<>>]
    /\ result = [c \in 1..n |-> Pending]
    /\ main_pc = "joining"
    /\ panicked = FALSE

\* one candidate, whose host has up to MaxAddrs addresses
Init ==
    /\ \E z \in [1..1 -> Answers(MaxAddrs)] : Start(1, z)
    /\ call = NoCall

\* more candidates than permits; only the first host has an address in DNS
InitGate ==
    \E z \in [1..NumGateCandidates -> Answers(1)] :
        /\ \A c \in 2..NumGateCandidates : z[c] = <<>>
        /\ Start(NumGateCandidates, z)
        /\ call = NoCall

Next ==
    \/ \E c \in candidates : Acquire(c)
    \/ \E c \in candidates : ResolveFailed(c)
    \/ \E c \in candidates : Resolved(c)
    \/ \E c \in candidates : \E a \in 1..MaxAddrs : Bind(c, a)
    \/ \E c \in candidates : \E a \in 1..MaxAddrs : ConnectSend(c, a)
    \/ \E c \in candidates : \E a \in 1..MaxAddrs : ConnectRecv(c, a)
    \/ \E c \in candidates : \E a \in 1..MaxAddrs : AnnounceSend(c, a)
    \/ \E c \in candidates : \E a \in 1..MaxAddrs : AnnounceRecv(c, a)
    \/ \E c \in candidates : \E a \in 1..MaxAddrs : StopSend(c, a)
    \/ \E c \in candidates : \E a \in 1..MaxAddrs : StopRecv(c, a)

Spec == Init /\ [][Next]_vars

SpecGate == InitGate /\ [][Next]_vars

\* the scheduler keeps polling the futures that can make progress, and every
\* awaited operation completes (a receive at the latest by its timeout)
FairGate == SpecGate /\ WF_vars(Next)

(***************************************************************************)
(* Functions called on their own, on arguments drawn from bounded sets.    *)
(***************************************************************************)
\* main is not running
NoRun == Start(0, <<>>)

\* what connect plus the Started announce can take, in ms: from nothing to
\* the two receive timeouts
LatencyValues == {0, 1, 10, 30, TimeoutMs - 1, TimeoutMs, 2 * TimeoutMs}

\* the per-address results after join_all, all of them Ok((address, rtt))
InitRtt ==
    /\ NoRun
    /\ \E n \in 1..MaxAddrs : \E rtts \in [1..n -> LatencyValues] :
           call = [fn |-> "check_udp_candidate", arg |-> rtts,
                   returned |-> FALSE, out |-> Pending]

\* check_udp_candidate from the return of join_all to its own return
CallVerdict ==
    /\ call.fn = "check_udp_candidate"
    /\ ~call.returned
    /\ call' = [call EXCEPT !.returned = TRUE,
                            !.out = Classify([i \in DOMAIN call.arg |-> Address(i)],
                                             [i \in DOMAIN call.arg |-> "Ok"],
                                             call.arg)]
    /\ UNCHANGED run_vars

NextRtt == CallVerdict

SpecRtt == InitRtt /\ [][NextRtt]_vars

\* a session waiting in the recv of connect()
AwaitingConnect ==
    [attempt_bound(NewAttempt(Address(1)), [ok |-> TRUE, port |-> 1])
        EXCEPT !.pc = "connect_recv", !.sent = <<"CONNECT">>, !.clock = 1]

\* a session waiting in the recv of announce(), its connect() done
AwaitingAnnounce ==
    [AwaitingConnect EXCEPT !.pc = "announce_recv", !.conn_id = 1, !.recvs = 1,
                            !.connect_res = "Ok", !.clock = 3,
                            !.sent = <<"CONNECT", "ANNOUNCE_STARTED">>]

\* a session in one of its two receives, the transaction id it wrote into the
\* request it sent, and what the receive is about to give
InitRecv ==
    /\ NoRun
    /\ \E rr \in RecvResultsOf(DatagramsWith(TxIds)) :
       \E transaction_id \in TxIds :
       \E w \in {[fn |-> "connect", s |-> AwaitingConnect],
                  [fn |-> "announce", s |-> AwaitingAnnounce]} :
           call = [fn |-> w.fn, s |-> w.s, transaction_id |-> transaction_id,
                   arg |-> rr, returned |-> FALSE,
                   out |-> Returned("Pending", NoError, w.s, {})]

\* connect() from the completion of its recv
CallConnectRecv ==
    /\ call.fn = "connect"
    /\ ~call.returned
    /\ call' = [call EXCEPT !.returned = TRUE, !.out = connect_recv(call.s, call.arg)]
    /\ UNCHANGED run_vars

\* announce() from the completion of its recv
CallAnnounceRecv ==
    /\ call.fn = "announce"
    /\ ~call.returned
    /\ call' = [call EXCEPT !.returned = TRUE, !.out = announce_recv(call.s, call.arg)]
    /\ UNCHANGED run_vars

NextRecv ==
    \/ CallConnectRecv
    \/ CallAnnounceRecv

SpecRecv == InitRecv /\ [][NextRecv]_vars

(***************************************************************************)
(* candidates.rs: TrackerCandidate and its canonical string.  A string is  *)
(* the sequence of its characters.                                         *)
(***************************************************************************)
DigitChars == <<"0", "1", "2", "3", "4", "5", "6", "7", "8", "9">>
IsDigit(ch) == \E i \in DOMAIN DigitChars : DigitChars[i] = ch
DigitValue(ch) == (CHOOSE i \in DOMAIN DigitChars : DigitChars[i] = ch) - 1

\* the Display of an unsigned integer
RECURSIVE Decimal(_)
Decimal(n) ==
    IF n < 10 THEN <<DigitChars[n + 1]>>
    ELSE Append(Decimal(n \div 10), DigitChars[(n % 10) + 1])

\* str::parse::<u16>: an optional '+', then one or more digits, the value
\* fitting 16 bits; acc is the value read so far
RECURSIVE ParseDigits(_, _)
ParseDigits(s, acc) ==
    IF s = <<>> THEN [ok |-> TRUE, value |-> acc]
    ELSE IF ~IsDigit(Head(s)) THEN [ok |-> FALSE, value |-> 0]
    ELSE LET v == (acc * 10) + DigitValue(Head(s))
         IN  IF v >= Half THEN [ok |-> FALSE, value |-> 0]
             ELSE ParseDigits(Tail(s), v)

ParseU16(s) ==
    LET digits == IF s # <<>> /\ Head(s) = "+" THEN Tail(s) ELSE s
    IN  IF digits = <<>> THEN [ok |-> FALSE, value |-> 0]
        ELSE ParseDigits(digits, 0)

\* str::split(ch).collect(): the parts between the occurrences of ch
RECURSIVE Split(_, _)
Split(s, ch) ==
    IF s = <<>> THEN << <<>> >>
    ELSE LET rest == Split(Tail(s), ch)
         IN  IF Head(s) = ch THEN << <<>> >> \o rest
             ELSE <<(<<Head(s)>> \o Head(rest))>> \o Tail(rest)

\* str::find(ch): the 0-based index of the first ch, -1 for None
Find(s, ch) ==
    IF \E i \in DOMAIN s : s[i] = ch
    THEN (CHOOSE i \in DOMAIN s : s[i] = ch /\ \A j \in 1..(i - 1) : s[j] # ch) - 1
    ELSE -1

\* a split that loses the character at mid
split_at_skipping(s, mid) == <<SubSeq(s, 1, mid), SubSeq(s, mid + 2, Len(s))>>

\* str::split_at(mid): the first mid characters and the rest
split_at(s, mid) == <<SubSeq(s, 1, mid), SubSeq(s, mid + 1, Len(s))>>

starts_with(s, prefix) ==
    Len(s) >= Len(prefix) /\ SubSeq(s, 1, Len(prefix)) = prefix

TransportTypes == {"UDP", "HTTP", "HTTPS"}

\* TransportType::to_string
TransportType_to_string(t) ==
    CASE t = "UDP" -> <<"u", "d", "p">>
      [] t = "HTTP" -> <<"h", "t", "t", "p">>
      [] t = "HTTPS" -> <<"h", "t", "t", "p", "s">>

\* TransportType::from_string
TransportType_from_string(s) ==
    IF \E t \in TransportTypes : TransportType_to_string(t) = s
    THEN [ok |-> TRUE, value |-> CHOOSE t \in TransportTypes : TransportType_to_string(t) = s]
    ELSE [ok |-> FALSE, value |-> "Illegal protocol"]

None == [some |-> FALSE, str |-> <<>>]
Some(s) == [some |-> TRUE, str |-> s]

TrackerCandidate(host, port, transport_type, suffix) ==
    [host |-> host, port |-> port, transport_type |-> transport_type, suffix |-> suffix]

ParseOk(c) == [ok |-> TRUE, value |-> c, err |-> "none"]
ParseErr(msg) == [ok |-> FALSE, value |-> TrackerCandidate(<<>>, 0, "UDP", None), err |-> msg]

\* TrackerCandidate::to_string
to_string(c) ==
    TransportType_to_string(c.transport_type) \o <<":", "/", "/">> \o c.host
        \o <<":">> \o Decimal(c.port) \o (IF c.suffix.some THEN c.suffix.str ELSE <<>>)

\* TrackerCandidate::from_string
from_string(string) ==
    LET parts == Split(string, ":")
    IN  IF Len(parts) # 3 THEN ParseErr("Invalid format. Expecting two ':'")
        ELSE LET transport_type == TransportType_from_string(parts[1])
                 suffix_index == Find(parts[3], "/")
                 halves == split_at(parts[3], suffix_index)
                 port == ParseU16(IF suffix_index >= 0 THEN halves[1] ELSE parts[3])
                 suffix == IF suffix_index >= 0 THEN Some(halves[2]) ELSE None
             IN  IF ~transport_type.ok THEN ParseErr(transport_type.value)
                 ELSE IF ~starts_with(parts[2], <<"/", "/">>)
                 THEN ParseErr("Invalid format. Expecting proto://host:port[/suffix]. Missing '://' after proto")
                 ELSE IF ~port.ok THEN ParseErr("Expected port to be a numeric value")
                 ELSE ParseOk(TrackerCandidate(split_at(parts[2], 2)[2], port.value,
                                               transport_type.value, suffix))

\* the characters hosts and suffixes are made of
Chars == {"a", "1", ":", "/"}
Strings(n) == UNION {[1..k -> Chars] : k \in 0..n}
Ports == {0, 80, Half - 1}

\* a TrackerCandidate built field by field
InitCandidate ==
    /\ NoRun
    /\ \E host \in Strings(MaxHostLen) : \E port \in Ports : \E t \in TransportTypes :
       \E suffix \in {None} \cup {Some(s) : s \in Strings(MaxSuffixLen)} :
           call = [fn |-> "from_string(to_string)",
                   arg |-> TrackerCandidate(host, port, t, suffix),
                   returned |-> FALSE, out |-> ParseErr("none")]

\* TrackerCandidate::from_string(&c.to_string())
CallRoundTrip ==
    /\ call.fn = "from_string(to_string)"
    /\ ~call.returned
    /\ call' = [call EXCEPT !.returned = TRUE, !.out = from_string(to_string(call.arg))]
    /\ UNCHANGED run_vars

NextCandidate == CallRoundTrip

SpecCandidate == InitCandidate /\ [][NextCandidate]_vars

(***************************************************************************)
(* Properties.                                                             *)
(***************************************************************************)
Done(c) == task[c] = "done"
InFlight(c) == task[c] \in {"resolving", "probing"}
Attempts(c) == DOMAIN client[c]
AllOk(c) == \A a \in Attempts(c) : client[c][a].outcome = "Ok"
RunConnectFirst == ApplicationError("You have to run connect first!")

\* C1: check_udp_candidate returns a profile if and only if DNS gave at least
\* one address and every per-address attempt succeeded, and the profile's
\* addrs is the full list of resolved addresses.
C1_ProfileIffAllSucceeded ==
    \A c \in candidates :
        Done(c) =>
            /\ result[c].tag = "Ok" <=> (Len(addrs[c]) >= 1 /\ AllOk(c))
            /\ result[c].tag = "Ok" => (result[c].addrs = addrs[c] /\ addrs[c] = zone[c])
            /\ Attempts(c) = DOMAIN addrs[c]

\* a profile for a host with two addresses
C1_Witness ==
    \E c \in candidates :
        Done(c) /\ result[c].tag = "Ok" /\ Len(result[c].addrs) = 2 /\ AllOk(c)

\* C2: when at least one address ended in an operational error, the verdict
\* is OperationalError, whatever the other addresses did and in whatever order.
C2_OperationalErrorDominates ==
    \A c \in candidates :
        (Done(c) /\ \E a \in Attempts(c) : client[c][a].outcome = "OperationalError")
            => result[c] = Failure("OperationalError")

\* a timeout on the first address and an operational error on the second
C2_Witness ==
    \E c \in candidates :
        /\ Done(c)
        /\ Len(addrs[c]) = 2
        /\ client[c][1].outcome = "Timeout"
        /\ client[c][2].outcome = "OperationalError"

\* C3: with no operational error and not every address successful, the verdict
\* is Timeout exactly when every address timed out and PartialTimeout exactly
\* when some but not all did.
C3_TimeoutOrPartial ==
    \A c \in candidates :
        (/\ Done(c)
         /\ Len(addrs[c]) >= 1
         /\ \A a \in Attempts(c) : client[c][a].outcome # "OperationalError"
         /\ ~AllOk(c))
            => /\ result[c].tag = "Err"
               /\ result[c].err = "Timeout"
                    <=> \A a \in Attempts(c) : client[c][a].outcome = "Timeout"
               /\ result[c].err = "PartialTimeout"
                    <=> /\ \E a \in Attempts(c) : client[c][a].outcome = "Timeout"
                        /\ \E a \in Attempts(c) : client[c][a].outcome # "Timeout"

\* both addresses timed out and the verdict is Timeout
C3_Witness ==
    \E c \in candidates :
        /\ Done(c)
        /\ Len(addrs[c]) = 2
        /\ \A a \in Attempts(c) : client[c][a].outcome = "Timeout"
        /\ result[c] = Failure("Timeout")

\* C4: when DNS resolution fails or returns no address, the verdict is
\* DnsResolutionFailed and no per-address attempt exists: no socket is bound
\* and no datagram is sent for the candidate.
C4_DnsFailureStartsNothing ==
    \A c \in candidates :
        /\ (Done(c) /\ addrs[c] = <<>>) => result[c] = Failure("DnsResolutionFailed")
        /\ (zone[c] = <<>> \/ addrs[c] = <<>> \/ result[c].err = "DnsResolutionFailed")
              => client[c] = <<>>
        /\ task[c] = "probing" => Len(addrs[c]) >= 1

\* a host without addresses got its verdict
C4_Witness ==
    \E c \in candidates :
        Done(c) /\ zone[c] = <<>> /\ result[c] = Failure("DnsResolutionFailed")

\* C5: announce on a session whose connection id is 0 fails with the
\* ApplicationError "You have to run connect first!", sends no datagram,
\* performs no receive and leaves the connection id as it was.
C5_AnnounceUnconnectedFails ==
    \A c \in candidates : \A a \in Attempts(c) :
        LET s == client[c][a]
        IN  (s.conn_id = 0 /\ s.connect_res = "Ok")
                => /\ s.pc = "done"
                   /\ s.err = RunConnectFirst
                   /\ s.outcome = "OperationalError"
                   /\ s.sent = <<"CONNECT">>
                   /\ s.recvs = 1
                   /\ ~s.announce_resp.some

\* announce was called on a session with connection id 0 and was rejected
C5_Witness ==
    \E c \in candidates : \E a \in Attempts(c) :
        /\ client[c][a].connect_res = "Ok"
        /\ client[c][a].conn_id = 0
        /\ client[c][a].err = RunConnectFirst

\* C6: whenever connect() returned Ok, the stored connection id is not 0 and
\* the announce that follows is not rejected with "You have to run connect
\* first!", whatever connection id the CONNECT response carried.
C6_ConnectOkMeansConnected ==
    \A c \in candidates : \A a \in Attempts(c) :
        client[c][a].connect_res = "Ok"
            => (client[c][a].conn_id # 0 /\ client[c][a].err # RunConnectFirst)

\* C7: at most Permits candidate checks are in flight, and a check is in
\* flight only while its candidate holds a permit of the semaphore.
C7_GateBoundsInFlight ==
    /\ Cardinality({c \in candidates : InFlight(c)}) <= Permits
    /\ \A c \in candidates : InFlight(c) => permit[c]
    /\ semaphore >= 0
    /\ semaphore + Cardinality({c \in candidates : permit[c]}) = Permits

\* all permits are taken and a candidate waits for one
C7_Witness ==
    /\ Cardinality({c \in candidates : InFlight(c)}) = Permits
    /\ semaphore = 0
    /\ \E c \in candidates : task[c] = "waiting"

\* C8: no failure inside one candidate's check aborts the process or keeps
\* another candidate from its verdict; a failed check ends in one CheckError.
C8_FailureStaysInItsCandidate ==
    /\ ~panicked
    /\ \A c \in candidates :
          (Done(c) /\ ~(Len(addrs[c]) >= 1 /\ AllOk(c)))
              => (result[c].tag = "Err" /\ result[c].err \in CheckErrors)

\* C9: every candidate is eventually admitted and its check eventually
\* completes with one verdict, so that the join over all candidates returns.
C9_EveryCheckCompletes ==
    <>(/\ main_pc = "joined"
       /\ \A c \in candidates : Done(c) /\ result[c].tag \in {"Ok", "Err"})

\* C10: an address counts as a success only if the peers of the Started
\* ANNOUNCE response contain the socket's local port; when the exchanges
\* succeed and no peer has that port, the address is an OperationalError.
C10_SuccessNeedsOwnPort ==
    \A c \in candidates : \A a \in Attempts(c) :
        LET s == client[c][a]
        IN  /\ s.outcome = "Ok"
                => (s.announce_resp.some /\ s.local_port \in s.announce_resp.peers)
            /\ (s.announce_resp.some /\ s.local_port \notin s.announce_resp.peers)
                => (s.pc = "done" /\ s.outcome = "OperationalError"
                    /\ s.sent = <<"CONNECT", "ANNOUNCE_STARTED">>)

\* the tracker answered the Started announce with another peer only
C10_Witness ==
    \E c \in candidates : \E a \in Attempts(c) :
        /\ client[c][a].announce_resp.some
        /\ client[c][a].announce_resp.peers # {}
        /\ client[c][a].local_port \notin client[c][a].announce_resp.peers
        /\ client[c][a].outcome = "OperationalError"

\* the sum of a list of numbers
RECURSIVE Sum(_)
Sum(xs) == IF xs = <<>> THEN 0 ELSE Head(xs) + Sum(Tail(xs))

\* C11: the rtt_ms of a profile is the integer mean (the sum divided by n,
\* rounded down) of the n per-address latencies in whole milliseconds; the
\* u32 sum does not wrap around.
C11_RttIsIntegerMean ==
    (call.fn = "check_udp_candidate" /\ call.returned) =>
        /\ call.out.tag = "Ok"
        /\ call.out.rtt_ms = Sum(call.arg) \div Len(call.arg)
        /\ ValueU32(SumU32(call.arg)) = Sum(call.arg)

C11_Witness ==
    /\ call.fn = "check_udp_candidate"
    /\ call.returned
    /\ call.arg = <<10, 30>>
    /\ call.out.rtt_ms = 20

\* what from_string gives is what to_string was given
RoundTrips == call.out.ok /\ call.out.value = call.arg

\* a candidate from_string can produce: no ':' in the host, and a suffix, when
\* present, that starts with '/' and holds no ':'
Parsable(c) ==
    /\ \A i \in DOMAIN c.host : c.host[i] # ":"
    /\ c.suffix.some =>
         /\ c.suffix.str # <<>>
         /\ Head(c.suffix.str) = "/"
         /\ \A i \in DOMAIN c.suffix.str : c.suffix.str[i] # ":"

\* C12, as stated: for every TrackerCandidate C (any transport, host string,
\* 16-bit port, absent or present suffix), from_string(C.to_string()) succeeds
\* and returns a candidate equal to C.
C12_EveryCandidateRoundTrips ==
    (call.fn = "from_string(to_string)" /\ call.returned) => RoundTrips

\* C12, amended: for every TrackerCandidate C whose host holds no ':' and whose
\* suffix is absent or starts with '/' and holds no ':', whatever its transport
\* and 16-bit port, from_string(C.to_string()) succeeds and returns a
\* candidate equal to C.
C12_ParsableCandidateRoundTrips ==
    (call.fn = "from_string(to_string)" /\ call.returned /\ Parsable(call.arg)) => RoundTrips

C12_Witness ==
    /\ call.fn = "from_string(to_string)"
    /\ call.returned
    /\ Parsable(call.arg)
    /\ call.arg.suffix = Some(<<"/", "a">>)
    /\ call.arg.host = <<"a", "/">>
    /\ call.arg.port = Half - 1
    /\ RoundTrips

\* C13: when connect() fails, for whatever reason, the session's conn_id is
\* left as it was (0, the value new() gave it): conn_id is written only on the
\* path that returns Ok.
C13_FailedConnectKeepsConnId ==
    \A c \in candidates : \A a \in Attempts(c) :
        LET s == client[c][a]
        IN  s.connect_res # "Ok" => s.conn_id = NewAttempt(Address(a)).conn_id

C13_Witness ==
    \E c \in candidates : \E a \in Attempts(c) :
        LET s == client[c][a]
        IN  /\ s.connect_res = "Err"
            /\ s.recvs = 1
            /\ s.err = ApplicationError("Expected CONNECT response, got ANNOUNCE response")
            /\ s.conn_id = 0

\* the requests of one address, in the order the code issues them
Requests == <<"CONNECT", "ANNOUNCE_STARTED", "ANNOUNCE_STOPPED">>
IsPrefix(xs, ys) == Len(xs) <= Len(ys) /\ xs = SubSeq(ys, 1, Len(xs))
Failed(s) == s.outcome \in {"Timeout", "OperationalError"}

\* C14: for each address the datagrams sent are a prefix of CONNECT,
\* ANNOUNCE(Started), ANNOUNCE(Stopped), each sent at most once; an ANNOUNCE is
\* sent only after a CONNECT response was accepted on the same session; and
\* once a step failed the attempt sends nothing more (no retry).
C14_RequestsInOrderNoRetry ==
    /\ [](\A c \in candidates : \A a \in Attempts(c) :
            LET s == client[c][a]
            IN  /\ IsPrefix(s.sent, Requests)
                /\ Len(s.sent) >= 2 => (s.connect_res = "Ok" /\ s.conn_id # 0)
                /\ s.recvs <= Len(s.sent)
                /\ Failed(s) => s.pc = "done")
    /\ [][\A c \in candidates : \A a \in Attempts(c) :
            Failed(client[c][a]) =>
                /\ client'[c][a].sent = client[c][a].sent
                /\ client'[c][a].recvs = client[c][a].recvs]_vars

C14_Witness ==
    \E c \in candidates : \E a, b \in Attempts(c) :
        /\ client[c][a].sent = Requests
        /\ client[c][a].outcome = "Ok"
        /\ client[c][b].sent = <<"CONNECT">>
        /\ client[c][b].recvs = 1
        /\ client[c][b].outcome = "Timeout"
        /\ Done(c)

\* C15: the verdict of a candidate is computed only after every per-address
\* attempt reached its final outcome, and an error on one address does not
\* cancel the attempts on the other addresses: an attempt that is under way
\* is never left without its outcome because another one failed.
C15_AttemptsRunToCompletion ==
    \A c \in candidates :
        /\ result[c] # Pending => AllFinished(client[c])
        /\ Done(c) => AllFinished(client[c])
        /\ \A b \in Attempts(c) :
               (client[c][b].pc # "bind" /\ client[c][b].outcome = "none") => ~panicked

\* C16: the Stopped (cleanup) announce is issued if and only if the address was
\* accepted, and its result is never observed: however it ends, the outcome
\* of the address stays Ok and the latency recorded is the one measured before
\* the cleanup, after the four awaited operations of connect and the Started
\* announce.
C16_CleanupIsNeverObserved ==
    \A c \in candidates : \A a \in Attempts(c) :
        LET s == client[c][a]
        IN  /\ s.accepted <=> s.pc \in {"stop_send", "stop_recv"} \/ s.cleanup # "none"
            /\ (\E i \in DOMAIN s.sent : s.sent[i] = "ANNOUNCE_STOPPED") => s.accepted
            /\ s.pc = "stop_recv" => s.sent = Requests
            /\ s.accepted => (s.rtt = 4 /\ s.outcome \in {"none", "Ok"})
            /\ (s.accepted /\ s.pc = "done") => (s.outcome = "Ok" /\ s.cleanup \in {"Ok", "Err"})
            /\ s.outcome = "Ok" => s.accepted

C16_Witness ==
    \E c \in candidates : \E a \in Attempts(c) :
        LET s == client[c][a]
        IN  /\ s.accepted
            /\ s.pc = "done"
            /\ s.sent = Requests
            /\ s.recvs = 3
            /\ s.cleanup = "Err"
            /\ s.outcome = "Ok"
            /\ s.clock = 6
            /\ s.rtt = 4
            /\ result[c].tag = "Ok"

\* C17: the failure outcome of a per-address attempt is Timeout exactly when
\* the failing step was a receive that got no datagram within the timeout;
\* every other failure of connect or the Started announce (socket error, short
\* send, unparsable or wrong response, missing peer) is OperationalError; no
\* per-address outcome is DnsResolutionFailed or PartialTimeout.
C17_TimeoutOnlyFromElapsedReceive ==
    \A c \in candidates : \A a \in Attempts(c) :
        LET s == client[c][a]
        IN  /\ s.outcome \in {"none", "Ok", "Timeout", "OperationalError"}
            /\ Failed(s) <=> s.cause # "none"
            /\ s.outcome = "Timeout" <=> s.cause = "Elapsed"
            /\ s.outcome = "OperationalError" <=>
                   s.cause \in {"SendError", "ShortSend", "IoError", "Datagram",
                                "NotConnected", "PeerMissing"}
            /\ s.cause = "Elapsed" =>
                   (s.err = FromElapsed /\ s.recvs = Len(s.sent) /\ s.recvs \in {1, 2})

C17_Witness ==
    \E c \in candidates : \E a, b \in Attempts(c) :
        /\ client[c][a].outcome = "Timeout"
        /\ client[c][a].cause = "Elapsed"
        /\ client[c][a].recvs = 2
        /\ client[c][b].outcome = "OperationalError"
        /\ client[c][b].cause = "IoError"
        /\ client[c][b].err = IoError("ConnectionRefused")

\* a receive of connect() or announce() has returned
RecvReturned == call.fn \in {"connect", "announce"} /\ call.returned
\* the response type the operation waits for
Expected == IF call.fn = "connect" THEN "Connect" ELSE "Announce"
\* the operation handed the bytes it read to TrackerResponse::from_bytes
Parsed ==
    /\ call.arg.res = "Datagram"
    /\ call.fn = "announce" => call.arg.dgram.len < BufferLen

\* C18: connect() returns Ok only if the datagram received parses as a CONNECT
\* response, and announce() only if it parses as an ANNOUNCE response; a
\* datagram that does not parse, or parses as another type (an ERROR response,
\* a CONNECT response read by announce), makes the operation return an
\* ApplicationError after that one receive, not wait for another datagram.
C18_OnlyTheExpectedResponseIsOk ==
    RecvReturned =>
        /\ call.out.ret \in {"Ok", "Err"}
        /\ call.out.s.recvs = call.s.recvs + 1
        /\ call.out.ret = "Ok" =>
              (call.arg.res = "Datagram" /\ call.arg.dgram.type = Expected)
        /\ (Parsed /\ call.arg.dgram.type # Expected) =>
              (call.out.ret = "Err" /\ call.out.err.variant = "ApplicationError")

C18_Witness ==
    /\ RecvReturned
    /\ call.fn = "announce"
    /\ Parsed
    /\ call.arg.dgram.type = "Connect"
    /\ call.out.ret = "Err"
    /\ call.out.err = ApplicationError("Expected ANNOUNCE response, got CONNECT response")

\* C20: in connect() and in announce(), a response datagram larger than the
\* 1024-byte buffer makes the operation fail with a GeneralError; it is never
\* parsed and accepted.
C20_OversizedResponseIsRejected ==
    (RecvReturned /\ call.arg.res = "Datagram" /\ call.arg.dgram.len > BufferLen) =>
        (call.out.ret = "Err" /\ call.out.err.variant = "GeneralError")

\* C19: the slot a candidate acquired is released when its check completes,
\* whatever the verdict; once every check has completed, all 10 slots are free
\* and no candidate waits for one.
C19_SlotsComeBack ==
    /\ \A c \in candidates : Done(c) => ~permit[c]
    /\ \A c \in candidates : permit[c] => InFlight(c)
    /\ (\A c \in candidates : result[c] # Pending) =>
          /\ semaphore = Permits
          /\ \A c \in candidates : task[c] = "done"
          /\ main_pc = "joined"
    /\ main_pc = "joined" => semaphore = Permits

C19_Witness ==
    /\ main_pc = "joined"
    /\ semaphore = Permits
    /\ Cardinality(candidates) > Permits
    /\ \A c \in candidates : ~permit[c] /\ Done(c)
    /\ \E c \in candidates : result[c].tag = "Ok"
    /\ \E c \in candidates : result[c] = Failure("DnsResolutionFailed")

\* C21: a response accepted by connect() or announce() carries the transaction
\* id of the request pending on the session; a datagram of the right type with
\* another transaction id is not accepted as its reply.
C21_AcceptedResponseMatchesRequest ==
    (RecvReturned /\ call.out.ret = "Ok") =>
        call.arg.dgram.txid = call.transaction_id

====
